---- MODULE Spec2Model ----
(***************************************************************************)
(* A model of the zephinax profile card: the ANSI utilities, the text      *)
(* wrapper, the box renderer, the profile formatter and the fetch-and-      *)
(* print run of main.                                                       *)
(*                                                                          *)
(* A JavaScript string is a sequence of characters, each character a        *)
(* one-element TLA+ string.  The characters that have no ASCII spelling     *)
(* carry a name: "ESC" is U+001B, "CSI8" is U+009B, "ELLIPSIS" is U+2026    *)
(* and "TL", "TR", "BL", "BR", "H", "V", "LT", "RT" are the box glyphs.     *)
(* An absent value (undefined or null) is NULL, a one-character string      *)
(* whose character belongs to no alphabet.                                  *)
(***************************************************************************)
EXTENDS Integers, Sequences, FiniteSets, TLC

VARIABLES
  pc,        \* position of the run: of main, or of the function applied
  input,     \* arguments of the function applied (function specifications)
  output,    \* value the function returned
  env,       \* main: [hasFetch, columns] of the process
  response,  \* main: what the network answers the GET with
  body,      \* main: `data` of the https callback, the chunks received so far
  data,      \* main: the parsed response body
  err,       \* main: the error thrown into the catch block
  stdout,    \* main: lines written by console.log
  stderr,    \* main: lines written by console.error
  exitCode,  \* main: process.exitCode
  trace      \* main: the I/O events of the run, in order

\* The state only a run of main changes.
mainVars == <<env, response, body, data, err, stdout, stderr, exitCode, trace>>

vars == <<pc, input, output, mainVars>>

NULL == <<"undefined">>

Min(a, b) == IF a < b THEN a ELSE b
Max(a, b) == IF a > b THEN a ELSE b

\* Every string over `alphabet` of length at most n.
StringsUpTo(alphabet, n) == UNION {[1..k -> alphabet] : k \in 0..n}

\* String.prototype.repeat
repeat(str, count) ==
  IF count <= 0 \/ str = <<>> THEN <<>>
  ELSE [i \in 1..(count * Len(str)) |-> str[((i - 1) % Len(str)) + 1]]

\* String.prototype.slice(0, end): a negative end counts from the end.
slice0(str, end) ==
  LET e == IF end < 0 THEN Max(Len(str) + end, 0) ELSE Min(end, Len(str))
  IN  SubSeq(str, 1, e)

\* JavaScript truthiness of an optional string: absent and "" are falsy.
Truthy(v) == v # NULL /\ v # <<>>

(***************************************************************************)
(* ANSI utilities                                                           *)
(***************************************************************************)
ESC == "ESC"
EscChars == {"ESC", "CSI8"}
IntroChars == {"[", "(", ")", "#", ";", "?"}
Digits == {"0", "1", "2", "3", "4", "5", "6", "7", "8", "9"}
FinalChars ==
  Digits \cup {"A", "B", "C", "D", "E", "F", "G", "H", "I", "J", "K", "L", "M", "N", "O"}
         \cup {"R", "Z", "c", "f", "g", "h", "i", "j", "k", "l", "m", "n", "q", "r", "y"}
         \cup {"=", ">", "<"}

RECURSIVE RunLen(_, _, _)
\* Length of the run of characters of class C that starts at position q.
RunLen(s, q, C) ==
  IF q > Len(s) \/ s[q] \notin C THEN 0 ELSE 1 + RunLen(s, q + 1, C)

\* The final character [0-9A-ORZcf-nqry=><] at q: the position after it, 0 for no match.
MatchFinal(s, q) == IF q <= Len(s) /\ s[q] \in FinalChars THEN q + 1 ELSE 0

RECURSIVE MatchTail(_, _)
RECURSIVE TryDigits(_, _, _, _)
\* (?:;[0-9]{0,4})* and the final character from r, the star greedy with backtracking.
MatchTail(s, r) ==
  LET IterOrFinal(iter) == IF iter # 0 THEN iter ELSE MatchFinal(s, r)
  IN  IterOrFinal(IF r <= Len(s) /\ s[r] = ";"
                  THEN TryDigits(s, r + 1, Min(4, RunLen(s, r + 1, Digits)), 0)
                  ELSE 0)

\* d digits from q, then the rest; on failure one digit fewer, down to lo.
TryDigits(s, q, d, lo) ==
  LET OrFewerDigits(r) ==
        IF r # 0 THEN r
        ELSE IF d > lo THEN TryDigits(s, q, d - 1, lo)
        ELSE 0
  IN  OrFewerDigits(MatchTail(s, q + d))

\* (?:[0-9]{1,4}(?:;[0-9]{0,4})*)? and the final character from q.
MatchParams(s, q) ==
  LET WithGroup(d) == IF d >= 1 THEN TryDigits(s, q, d, 1) ELSE 0
      GroupOrFinal(withGroup) == IF withGroup # 0 THEN withGroup ELSE MatchFinal(s, q)
  IN  GroupOrFinal(WithGroup(Min(4, RunLen(s, q, Digits))))

RECURSIVE TryIntro(_, _, _)
\* [[()#;?]* taking k characters after the escape at p, then fewer.
TryIntro(s, p, k) ==
  LET OrShorterIntro(r) ==
        IF r # 0 THEN r
        ELSE IF k > 0 THEN TryIntro(s, p, k - 1)
        ELSE 0
  IN  OrShorterIntro(MatchParams(s, p + 1 + k))

\* The escape-sequence pattern tried at p: the position after the match, 0 for none.
MatchAnsi(s, p) ==
  IF s[p] \in EscChars THEN TryIntro(s, p, RunLen(s, p + 1, IntroChars)) ELSE 0

\* The other patterns of the program's regular expressions.  Each Match operator
\* tries its pattern at position p of s: the position after the match, 0 for none.

\* What \s matches and trim() removes, among the characters modelled.
WhiteSpace == {" ", "\t", "\n", "\r", "\f"}

\* Where ^ matches under the m flag: after one of these, or at the start.
LineTerminators == {"\n", "\r", "LS", "PS"}

\* /\*\*/
MatchBold(s, p) == IF s[p] = "*" /\ p + 1 <= Len(s) /\ s[p + 1] = "*" THEN p + 2 ELSE 0

\* /^>\s?/m
MatchQuote(s, p) ==
  IF s[p] = ">" /\ (p = 1 \/ s[p - 1] \in LineTerminators)
  THEN IF p + 1 <= Len(s) /\ s[p + 1] \in WhiteSpace THEN p + 2 ELSE p + 1
  ELSE 0

\* /\r?\n/
MatchNewline(s, p) ==
  IF s[p] = "\r" /\ p + 1 <= Len(s) /\ s[p + 1] = "\n" THEN p + 2
  ELSE IF s[p] = "\n" THEN p + 1
  ELSE 0

\* /\r?\n\s*/
MatchBreak(s, p) ==
  LET ThenSpaces(e) == IF e = 0 THEN 0 ELSE e + RunLen(s, e, WhiteSpace)
  IN  ThenSpaces(MatchNewline(s, p))

\* /\s+/
MatchSpaces(s, p) == IF s[p] \in WhiteSpace THEN p + RunLen(s, p, WhiteSpace) ELSE 0

MatchEnd(pattern, s, p) ==
  CASE pattern = "ansi" -> MatchAnsi(s, p)
    [] pattern = "bold" -> MatchBold(s, p)
    [] pattern = "quote" -> MatchQuote(s, p)
    [] pattern = "newline" -> MatchNewline(s, p)
    [] pattern = "break" -> MatchBreak(s, p)
    [] pattern = "spaces" -> MatchSpaces(s, p)

\* The leftmost position from i on where the pattern matches, 0 for none.
NextMatch(pattern, s, i) ==
  LET Leftmost(ms) == IF ms = {} THEN 0 ELSE CHOOSE p \in ms : \A q \in ms : p <= q
  IN  Leftmost({p \in i..Len(s) : MatchEnd(pattern, s, p) # 0})

RECURSIVE ReplaceFrom(_, _, _, _)
\* String.prototype.replace(/pattern/g, replacement) from position i: one
\* left-to-right pass over the leftmost matches, none overlapping.
ReplaceFrom(pattern, s, i, replacement) ==
  LET ReplaceAt(p) ==
        IF p = 0 THEN SubSeq(s, i, Len(s))
        ELSE SubSeq(s, i, p - 1) \o replacement
             \o ReplaceFrom(pattern, s, MatchEnd(pattern, s, p), replacement)
  IN  ReplaceAt(NextMatch(pattern, s, i))

replace(s, pattern, replacement) == ReplaceFrom(pattern, s, 1, replacement)

RECURSIVE SplitFrom(_, _, _)
\* String.prototype.split(/pattern/) from position i.
SplitFrom(pattern, s, i) ==
  LET SplitAt(p) ==
        IF p = 0 THEN <<SubSeq(s, i, Len(s))>>
        ELSE <<SubSeq(s, i, p - 1)>> \o SplitFrom(pattern, s, MatchEnd(pattern, s, p))
  IN  SplitAt(NextMatch(pattern, s, i))

split(s, pattern) == SplitFrom(pattern, s, 1)

\* String.prototype.trim
trim(s) ==
  LET Trail(rest) == CHOOSE k \in 0..Len(rest) :
                       /\ \A j \in (Len(rest) - k + 1)..Len(rest) : rest[j] \in WhiteSpace
                       /\ (k = Len(rest) \/ rest[Len(rest) - k] \notin WhiteSpace)
      TrimEnd(rest, trail) == SubSeq(rest, 1, Len(rest) - trail)
      TrimStart(rest) == TrimEnd(rest, Trail(rest))
  IN  TrimStart(SubSeq(s, RunLen(s, 1, WhiteSpace) + 1, Len(s)))

stripAnsi(str) == replace(str, "ansi", <<>>)

visibleLength(str) == Len(stripAnsi(str))

(***************************************************************************)
(* Box renderer                                                             *)
(***************************************************************************)
CONTENT_MARGIN == 1

divider(char, length) == repeat(<<char>>, length)

boxTop(label, width) ==
  LET title == IF Truthy(label) THEN <<" ">> \o label \o <<" ">> ELSE <<>>
      dash == Max(0, width - 2 - Len(title))
  IN  <<"TL">> \o title \o divider("H", dash) \o <<"TR">>

boxBottom(width) == <<"BL">> \o divider("H", Max(0, width - 2)) \o <<"BR">>

\* The padding boxLine adds after raw, measured on what is visible.
boxPadding(inner, raw) == Max(0, inner - visibleLength(raw))

boxLine(text, width) ==
  LET inner == Max(0, width - 4 - CONTENT_MARGIN * 2)
      content == IF Truthy(text) THEN text ELSE <<>>
      margin == repeat(<<" ">>, CONTENT_MARGIN)
      Row(raw, padding) ==
        <<"V", " ">> \o margin \o raw \o repeat(<<" ">>, padding) \o margin \o <<" ", "V">>
      Padded(raw) == Row(raw, boxPadding(inner, raw))
      Raw(needsTruncate) ==
        IF needsTruncate
        THEN slice0(stripAnsi(content), inner - 1) \o <<"ELLIPSIS">>
        ELSE content
      NeedsTruncate(visLen) == visLen > inner
  IN  Padded(Raw(NeedsTruncate(visibleLength(content))))

(***************************************************************************)
(* stripAnsi applied to one string                                          *)
(***************************************************************************)
MaxStripLen == 4
StripAlphabet == {ESC, "[", "0", ";", "m", "x"}
StripInputs == StringsUpTo(StripAlphabet, MaxStripLen)

Idle ==
  /\ env = NULL /\ response = NULL /\ body = <<>> /\ data = NULL /\ err = NULL
  /\ stdout = <<>> /\ stderr = <<>> /\ exitCode = 0 /\ trace = <<>>

InitStrip ==
  /\ pc = "call"
  /\ input \in {[str |-> s] : s \in StripInputs}
  /\ output = NULL
  /\ Idle

CallStripAnsi ==
  /\ pc = "call"
  /\ output' = [stripped |-> stripAnsi(input.str), visible |-> visibleLength(input.str)]
  /\ pc' = "return"
  /\ UNCHANGED <<input, mainVars>>

NextStrip == CallStripAnsi

SpecStrip == InitStrip /\ [][NextStrip]_vars

\* C5: stripping is idempotent with respect to visible length: the visible length
\* of stripAnsi(s) equals the visible length of s, for every string s.
C5_StripIdempotent ==
  pc = "return" => visibleLength(output.stripped) = output.visible

(***************************************************************************)
(* boxLine applied to one text and one width                                *)
(***************************************************************************)
MaxTokens == 5
MaxWidth == 10
CSI == <<ESC, "[", "0", "m">>
BoxTokens == {<<ESC>>, CSI, <<"m">>, <<"x">>}

RECURSIVE Concat(_)
\* The concatenation of a sequence of strings.
Concat(ss) == IF ss = <<>> THEN <<>> ELSE Head(ss) \o Concat(Tail(ss))

BoxTexts == {NULL} \cup {Concat(ts) : ts \in StringsUpTo(BoxTokens, MaxTokens)}
BoxWidths == 0..MaxWidth

InitBoxLine ==
  /\ pc = "call"
  /\ input \in {[text |-> t, width |-> w] : t \in BoxTexts, w \in BoxWidths}
  /\ output = NULL
  /\ Idle

CallBoxLine ==
  /\ pc = "call"
  /\ output' = boxLine(input.text, input.width)
  /\ pc' = "return"
  /\ UNCHANGED <<input, mainVars>>

NextBoxLine == CallBoxLine

SpecBoxLine == InitBoxLine /\ [][NextBoxLine]_vars

\* The visible length of the text boxLine is given ("" when absent).
InputVisible == IF Truthy(input.text) THEN visibleLength(input.text) ELSE 0

\* C1 as stated: for every text and every requested width the row boxLine
\* returns has visible length exactly the requested width.
C1_AnyWidth ==
  pc = "return" => visibleLength(output) = input.width

\* What boxLine does guarantee (C1 restricted to the widths that hold the frame
\* and the margins): the row has visible length exactly width for every width of
\* at least 7, and for width 6 when the text has no visible character; every row
\* is at least 6 columns wide.
C1_RowWidth ==
  pc = "return" =>
    /\ (input.width >= 7 \/ (input.width = 6 /\ InputVisible = 0))
          => visibleLength(output) = input.width
    /\ visibleLength(output) >= 6

(***************************************************************************)
(* Text wrapper                                                             *)
(***************************************************************************)
\* Array.prototype.filter(Boolean) on strings: the non-empty ones, in order.
filterTruthy(ss) == SelectSeq(ss, LAMBDA x : Truthy(x))

\* The length a candidate line is measured by.
candidateLength(candidate) == Len(candidate)

RECURSIVE packWords(_, _, _, _, _)
\* A forEach that replaces the current line by the word that overflows it and
\* never pushes it: the words of a full line are lost.
packWordsLosingLine(words, k, width, lines, current) ==
  IF k > Len(words)
  THEN IF current # <<>> THEN Append(lines, current) ELSE lines
  ELSE IF Len(current) + 1 + Len(words[k]) > width /\ current # <<>>
       THEN packWords(words, k + 1, width, lines, words[k])
       ELSE packWords(words, k + 1, width, lines,
                      IF current # <<>> THEN current \o <<" ">> \o words[k] ELSE words[k])

\* words.forEach of wrapText from word k on, and the push of the last line.
packWords(words, k, width, lines, current) ==
  IF k > Len(words)
  THEN IF current # <<>> THEN Append(lines, current) ELSE lines
  ELSE LET word == words[k]
           candidate == IF current # <<>> THEN current \o <<" ">> \o word ELSE word
       IN  IF candidateLength(candidate) > width
           THEN packWords(words, k + 1, width,
                          IF current # <<>> THEN Append(lines, current) ELSE lines, word)
           ELSE packWords(words, k + 1, width, lines, candidate)

\* A callback that returns the paragraph as it stands, as one line.
wrapParagraphAsIs(para, width, indentStr) == <<indentStr \o para>>

\* The flatMap callback of wrapText: the lines of one paragraph.
wrapParagraph(para, width, indentStr) ==
  LET Indented(lines) == [i \in 1..Len(lines) |-> indentStr \o lines[i]]
  IN  Indented(packWords(split(para, "spaces"), 1, width, <<>>, <<>>))

\* The paragraphs wrapText wraps: split, trimmed, the empty ones dropped.
paragraphs(text) ==
  LET Trimmed(parts) == [i \in 1..Len(parts) |-> trim(parts[i])]
  IN  filterTruthy(Trimmed(split(text, "newline")))

RECURSIVE flatMapWrap(_, _, _)
flatMapWrap(paras, width, indentStr) ==
  IF paras = <<>> THEN <<>>
  ELSE wrapParagraph(Head(paras), width, indentStr) \o flatMapWrap(Tail(paras), width, indentStr)

wrapText(text, width, indent) ==
  IF ~Truthy(text) THEN <<>>
  ELSE flatMapWrap(paragraphs(text), width, repeat(<<" ">>, indent))

(***************************************************************************)
(* wrapText applied to one text, width and indent                           *)
(***************************************************************************)
MaxWrapLen == 5
MaxWrapWidth == 5
MaxIndent == 1
WrapAlphabet == {"a", "b", " ", "\n", "\r"}
WrapTexts == {NULL} \cup StringsUpTo(WrapAlphabet, MaxWrapLen)

InitWrap ==
  /\ pc = "call"
  /\ input \in {[text |-> t, width |-> w, indent |-> n] :
                  t \in WrapTexts, w \in 0..MaxWrapWidth, n \in 0..MaxIndent}
  /\ output = NULL
  /\ Idle

CallWrapText ==
  /\ pc = "call"
  /\ output' = wrapText(input.text, input.width, input.indent)
  /\ pc' = "return"
  /\ UNCHANGED <<input, mainVars>>

NextWrap == CallWrapText

SpecWrap == InitWrap /\ [][NextWrap]_vars

\* The text as a string ("" when absent).
InputText == IF input.text = NULL THEN <<>> ELSE input.text

RECURSIVE WordList(_)
\* The whitespace-delimited words of a string: its maximal runs of other characters.
WordList(s) ==
  IF s = <<>> THEN <<>>
  ELSE IF Head(s) \in WhiteSpace THEN WordList(Tail(s))
  ELSE LET n == CHOOSE k \in 1..Len(s) :
                  /\ \A j \in 1..k : s[j] \notin WhiteSpace
                  /\ (k = Len(s) \/ s[k + 1] \in WhiteSpace)
       IN  <<SubSeq(s, 1, n)>> \o WordList(SubSeq(s, n + 1, Len(s)))

RECURSIVE WordTags(_, _)
\* For each word of s, in order, the number of line breaks before it, from p on.
WordTags(s, p) ==
  IF s = <<>> THEN <<>>
  ELSE IF Head(s) = "\n" THEN WordTags(Tail(s), p + 1)
  ELSE IF Head(s) \in WhiteSpace THEN WordTags(Tail(s), p)
  ELSE LET n == Len(Head(WordList(s)))
       IN  <<p>> \o WordTags(SubSeq(s, n + 1, Len(s)), p)

\* A text of one paragraph: a string without line break.
SingleParagraph == input.text # NULL /\ (\A i \in 1..Len(input.text) : input.text[i] \notin {"\n", "\r"})

RECURSIVE LineWords(_)
\* The words of the lines, line after line.
LineWords(lines) == IF lines = <<>> THEN <<>> ELSE WordList(Head(lines)) \o LineWords(Tail(lines))

\* C4 as stated: when w > 0 and no word of the text is longer than w, every line
\* wrapText(text, w, indent) returns has visible length at most w, for every indent.
C4_LinesFit ==
  LET words == WordList(InputText)
  IN  (/\ pc = "return"
       /\ input.width > 0
       /\ \A i \in 1..Len(words) : Len(words[i]) <= input.width)
        => \A i \in 1..Len(output) : visibleLength(output[i]) <= input.width

\* C6 as stated: a paragraph (a text without line break that is not blank) whose
\* trimmed length is smaller than width wraps, with indent 0, to exactly one line
\* equal to the trimmed text, character for character.
C6_ShortParagraphItself ==
  (/\ pc = "return"
   /\ SingleParagraph
   /\ input.indent = 0
   /\ Len(trim(InputText)) > 0
   /\ Len(trim(InputText)) < input.width)
    => output = <<trim(InputText)>>

RECURSIVE CollapseSpaces(_)
\* s with every run of whitespace replaced by one space.
CollapseSpaces(s) ==
  IF s = <<>> THEN <<>>
  ELSE IF Head(s) \in WhiteSpace
       THEN <<" ">> \o CollapseSpaces(SubSeq(s, 1 + RunLen(s, 1, WhiteSpace), Len(s)))
  ELSE <<Head(s)>> \o CollapseSpaces(Tail(s))

\* C6 as amended: a text without line break whose trimmed length is positive and
\* smaller than width wraps, with indent 0, to exactly one line: the trimmed text
\* with every run of whitespace between two words replaced by one space (so the
\* trimmed text itself when single spaces separate its words).
C6_ShortParagraphCollapsed ==
  (/\ pc = "return"
   /\ SingleParagraph
   /\ input.indent = 0
   /\ Len(trim(InputText)) > 0
   /\ Len(trim(InputText)) < input.width)
    => output = <<CollapseSpaces(trim(InputText))>>

\* C6's case: a short paragraph of two words, blanks around it and two blanks
\* between the words, was wrapped to one line.
C6_Witness ==
  /\ pc = "return"
  /\ SingleParagraph
  /\ input.indent = 0
  /\ Len(trim(InputText)) < input.width
  /\ Len(InputText) > Len(trim(InputText))
  /\ Len(WordList(InputText)) = 2
  /\ Len(CollapseSpaces(trim(InputText))) < Len(trim(InputText))
  /\ Len(output) = 1

\* C7: wrapText never splits, drops, duplicates or reorders a word: the words of
\* the returned lines, read in order, are the words of the input in order; no
\* line holds words of two paragraphs; a word longer than width is alone on its line.
C7_WordsPreserved ==
  pc = "return" =>
    LET words == WordList(InputText)
        tags == WordTags(InputText, 0)
        count(k) == Len(LineWords(SubSeq(output, 1, k)))
    IN  /\ LineWords(output) = words
        /\ \A k \in 1..Len(output) :
             /\ count(k) > count(k - 1)
             /\ count(k) <= Len(tags)
             /\ \A i, j \in (count(k - 1) + 1)..Min(count(k), Len(tags)) : tags[i] = tags[j]
             /\ \A i \in (count(k - 1) + 1)..Min(count(k), Len(tags)) :
                  Len(words[i]) > input.width => count(k) = count(k - 1) + 1

\* C7's case: a text of two paragraphs with a word longer than width was wrapped
\* into several lines.
C7_Witness ==
  LET words == WordList(InputText)
      tags == WordTags(InputText, 0)
  IN  /\ pc = "return"
      /\ tags # <<>>
      /\ tags[1] # tags[Len(tags)]
      /\ (\E i \in 1..Len(words) : Len(words[i]) > input.width /\ Len(words[i]) >= 2)
      /\ Len(output) >= 2

(***************************************************************************)
(* Profile formatter: clean                                                 *)
(***************************************************************************)
clean(text) ==
  IF ~Truthy(text) THEN <<>>
  ELSE trim(replace(replace(replace(text, "bold", <<>>), "quote", <<>>), "break", <<"\n">>))

(***************************************************************************)
(* clean applied to one about text                                          *)
(***************************************************************************)
MaxCleanLen == 5
CleanAlphabet == {"*", ">", " ", "\n", "a"}
\* "**Hello** world\n> quoted line"
SampleAbout ==
  <<"*", "*", "H", "e", "l", "l", "o", "*", "*", " ", "w", "o", "r", "l", "d", "\n",
    ">", " ", "q", "u", "o", "t", "e", "d", " ", "l", "i", "n", "e">>
\* "Hello world\nquoted line"
SampleCleaned ==
  <<"H", "e", "l", "l", "o", " ", "w", "o", "r", "l", "d", "\n",
    "q", "u", "o", "t", "e", "d", " ", "l", "i", "n", "e">>
CleanTexts == {NULL, SampleAbout} \cup StringsUpTo(CleanAlphabet, MaxCleanLen)

InitClean ==
  /\ pc = "call"
  /\ input \in {[text |-> t] : t \in CleanTexts}
  /\ output = NULL
  /\ Idle

CallClean ==
  /\ pc = "call"
  /\ output' = clean(input.text)
  /\ pc' = "return"
  /\ UNCHANGED <<input, mainVars>>

NextClean == CallClean

SpecClean == InitClean /\ [][NextClean]_vars

\* C8: the text clean returns holds no bold marker ** and no line that starts
\* with the block-quote marker >; the sample text cleans to "Hello world\nquoted line".
C8_NoMarkers ==
  pc = "return" =>
    /\ \A i \in 1..(Len(output) - 1) : ~(output[i] = "*" /\ output[i + 1] = "*")
    /\ \A i \in 1..Len(output) : output[i] = ">" => (i > 1 /\ output[i - 1] # "\n")
    /\ input.text = SampleAbout => output = SampleCleaned

(***************************************************************************)
(* Profile formatter: render                                                *)
(***************************************************************************)
cyan(str) == <<ESC, "[", "3", "6", "m">> \o str \o <<ESC, "[", "0", "m">>
magenta(str) == <<ESC, "[", "3", "5", "m">> \o str \o <<ESC, "[", "0", "m">>
yellow(str) == <<ESC, "[", "3", "3", "m">> \o str \o <<ESC, "[", "0", "m">>
bold(str) == <<ESC, "[", "1", "m">> \o str \o <<ESC, "[", "0", "m">>
dim(str) == <<ESC, "[", "2", "m">> \o str \o <<ESC, "[", "0", "m">>

LowerToUpper ==
  [c \in {"a", "b", "c", "d", "e", "i", "l", "n", "o", "s", "t", "u"} |->
     CASE c = "a" -> "A" [] c = "b" -> "B" [] c = "c" -> "C" [] c = "d" -> "D"
       [] c = "e" -> "E" [] c = "i" -> "I" [] c = "l" -> "L" [] c = "n" -> "N"
       [] c = "o" -> "O" [] c = "s" -> "S" [] c = "t" -> "T" [] c = "u" -> "U"]

\* String.prototype.toUpperCase, on the letters the labels use.
toUpperCase(str) ==
  [i \in 1..Len(str) |-> IF str[i] \in DOMAIN LowerToUpper THEN LowerToUpper[str[i]] ELSE str[i]]

\* String.prototype.padEnd(n)
padEnd(str, n) == str \o repeat(<<" ">>, n - Len(str))

boxDivider(label, width) ==
  LET tag == IF Truthy(label) THEN <<" ">> \o toUpperCase(label) \o <<" ">> ELSE <<>>
      lineLen == Max(0, width - 2 - Len(tag))
  IN  <<"LT">> \o tag \o divider("H", lineLen) \o <<"RT">>

LABEL_WIDTH == 8

\* A field row, NULL when the value is absent or empty.
fieldLine(label, value, width) ==
  IF ~Truthy(value) THEN NULL
  ELSE LET labelText == padEnd(label \o <<":">>, LABEL_WIDTH)
       IN  boxLine(yellow(labelText) \o <<" ">> \o value, width)

MIN_WIDTH == 60
MAX_WIDTH == 100
DEFAULT_COLUMNS == 80

\* process.stdout.columns || 80, clamped: columns is 0 when the stream reports none.
boxWidth(columns) ==
  Max(MIN_WIDTH, Min(IF columns # 0 THEN columns ELSE DEFAULT_COLUMNS, MAX_WIDTH))

\* a || b on optional strings
Either(a, b) == IF Truthy(a) THEN a ELSE b

Zephinax == <<"Z", "e", "p", "h", "i", "n", "a", "x">>
ProfileLabel == <<"P", "r", "o", "f", "i", "l", "e">>
DetailsLabel == <<"d", "e", "t", "a", "i", "l", "s">>
ContactLabel == <<"c", "o", "n", "t", "a", "c", "t">>
AboutLabel == <<"a", "b", "o", "u", "t">>
RoleLabel == <<"R", "o", "l", "e">>
TimezoneLabel == <<"T", "i", "m", "e", "z", "o", "n", "e">>
EmailLabel == <<"E", "m", "a", "i", "l">>
WebLabel == <<"W", "e", "b">>

\* The header of render: the bold name and the pronouns, trimmed.
header(profile) ==
  trim(bold(Either(profile.displayName, Either(profile.username, Zephinax))) \o <<" ">>
       \o (IF Truthy(profile.pronouns) THEN <<"(">> \o profile.pronouns \o <<")">> ELSE <<>>))

fullName(profile) ==
  IF Truthy(profile.firstName) \/ Truthy(profile.lastName)
  THEN trim(Either(profile.firstName, <<>>) \o <<" ">> \o Either(profile.lastName, <<>>))
  ELSE NULL

\* The `lines` array of render before join: the rows, absent ones filtered out.
renderLines(profile, columns) ==
  LET width == boxWidth(columns)
      contentWidth == Max(0, width - 4 - CONTENT_MARGIN * 2)
      primary == cyan(header(profile))
      Secondary(name) == IF Truthy(name) THEN dim(name) ELSE NULL
      AboutLines(about) == IF Truthy(about) THEN wrapText(about, contentWidth - 2, 0) ELSE <<>>
      Lines(secondary, aboutLines) ==
        <<boxTop(ProfileLabel, width),
          boxLine(primary, width),
          IF Truthy(secondary) THEN boxLine(secondary, width) ELSE NULL,
          boxDivider(DetailsLabel, width),
          fieldLine(RoleLabel, profile.jobTitle, width),
          fieldLine(TimezoneLabel, profile.timeZone, width),
          boxDivider(ContactLabel, width),
          fieldLine(EmailLabel, profile.email, width),
          fieldLine(WebLabel, profile.website, width),
          IF Len(aboutLines) # 0 THEN boxDivider(AboutLabel, width) ELSE NULL>>
        \o [i \in 1..Len(aboutLines) |-> boxLine(aboutLines[i], width)]
        \o <<boxBottom(width)>>
  IN  filterTruthy(Lines(Secondary(fullName(profile)),
                         AboutLines(clean(Either(profile.about, profile.bio)))))

RECURSIVE join(_, _)
\* Array.prototype.join
join(ss, sep) ==
  IF ss = <<>> THEN <<>>
  ELSE IF Len(ss) = 1 THEN ss[1]
  ELSE ss[1] \o sep \o join(Tail(ss), sep)

render(profile, columns) == join(renderLines(profile, columns), <<"\n">>)

(***************************************************************************)
(* render applied to one profile and one terminal                           *)
(***************************************************************************)
Fields ==
  {"displayName", "username", "pronouns", "firstName", "lastName", "jobTitle",
   "timeZone", "email", "website", "about", "bio"}

Ada == <<"A", "d", "a">>
LongWord == repeat(<<"x">>, MAX_WIDTH + 1)

\* The values a field of the response may hold, besides being absent.
FieldValues(f) ==
  CASE f = "displayName" -> {Ada, <<"A", "\n", "B">>}
    [] f = "email" -> {<<"a", "@", "x", ".", "c", "o", "m">>, LongWord}
    [] f = "about" -> {<<>>, <<" ", " ">>, SampleAbout,
                       LongWord \o <<" ">> \o repeat(<<"w", "o", "r", "d", " ">>, 25)}
    [] f = "jobTitle" -> {<<"D", "e", "v">>}
    [] f = "timeZone" -> {<<"U", "T", "C">>}
    [] f = "website" -> {<<"x", ".", "i", "o">>}
    [] f = "pronouns" -> {<<"s", "h", "e">>}
    [] OTHER -> {Ada}

MaxFields == 3

Optional(f) == {NULL} \cup FieldValues(f)

\* The profiles with at most n fields present.
ProfilesWith(n) ==
  {p \in [displayName : Optional("displayName"), username : Optional("username"),
          pronouns : Optional("pronouns"), firstName : Optional("firstName"),
          lastName : Optional("lastName"), jobTitle : Optional("jobTitle"),
          timeZone : Optional("timeZone"), email : Optional("email"),
          website : Optional("website"), about : Optional("about"), bio : Optional("bio")] :
     Cardinality({f \in Fields : p[f] # NULL}) <= n}

\* What process.stdout.columns reports: 0 stands for none (not a terminal).
ColumnCounts == {0, 1, 59, 60, 72, 100, 101}

InitRender ==
  /\ pc = "call"
  /\ input \in {[profile |-> p, columns |-> c] : p \in ProfilesWith(MaxFields), c \in ColumnCounts}
  /\ output = NULL
  /\ Idle

CallRender ==
  /\ pc = "call"
  /\ output' = render(input.profile, input.columns)
  /\ pc' = "return"
  /\ UNCHANGED <<input, mainVars>>

NextRender == CallRender

SpecRender == InitRender /\ [][NextRender]_vars

\* The rows of a rendered string: its pieces between line breaks.
Rows(s) ==
  LET cuts == {0, Len(s) + 1} \cup {i \in 1..Len(s) : s[i] = "\n"}
      nth(k) == CHOOSE c \in cuts : Cardinality({d \in cuts : d < c}) = k
  IN  [k \in 1..(Cardinality(cuts) - 1) |-> SubSeq(s, nth(k - 1) + 1, nth(k) - 1)]

\* Whether the rendered string holds the divider row of a section.
HasDivider(rendered, label) ==
  \E i \in 1..Len(Rows(rendered)) :
     LET row == Rows(rendered)[i]
     IN  /\ Len(row) >= Len(label) + 3
         /\ row[1] = "LT"
         /\ SubSeq(row, 3, Len(label) + 2) = toUpperCase(label)

\* C2: render emits a section divider only when the section has content: details
\* iff jobTitle or timeZone is non-empty, contact iff email or website is non-empty,
\* about iff the cleaned about/bio text is non-empty.
C2_DividersOnlyWithContent ==
  pc = "return" =>
    LET p == input.profile
    IN  /\ HasDivider(output, DetailsLabel) <=> (Truthy(p.jobTitle) \/ Truthy(p.timeZone))
        /\ HasDivider(output, ContactLabel) <=> (Truthy(p.email) \/ Truthy(p.website))
        /\ HasDivider(output, AboutLabel) <=> Truthy(clean(Either(p.about, p.bio)))

\* C10: the rendered box is rectangular: the width render uses lies in [60,100]
\* (80 when no column count is reported) and every row of the output has visible
\* length exactly that width.
C10_Rectangular ==
  pc = "return" =>
    LET width == visibleLength(Rows(output)[1])
    IN  /\ width \in MIN_WIDTH..MAX_WIDTH
        /\ input.columns = 0 => width = DEFAULT_COLUMNS
        /\ input.columns \in MIN_WIDTH..MAX_WIDTH => width = input.columns
        /\ \A i \in 1..Len(Rows(output)) : visibleLength(Rows(output)[i]) = width

(***************************************************************************)
(* main: fetchProfile, then render and print, or the catch block            *)
(***************************************************************************)
MaxBodyFields == 1
MaxChunks == 2

EmptyProfile == [f \in Fields |-> NULL]
\* An about that is no string (a number in the JSON): text.replace is no function.
NotAString == <<"number">>

\* What JSON.parse makes of the response body.
Payloads ==
  {[kind |-> k, profile |-> EmptyProfile] : k \in {"invalid", "null", "noData", "falsyData"}}
    \cup {[kind |-> "profile", profile |-> p] : p \in ProfilesWith(MaxBodyFields)}
    \cup {[kind |-> "profile", profile |-> [EmptyProfile EXCEPT !["about"] = NotAString]]}

Statuses == {199, 200, 299, 300, 404}

\* res.ok, and the test of the https callback: 200 <= status < 300.
ok(status) == status >= 200 /\ status < 300

Message(text, status) == [text |-> text, status |-> status]
StatusError(status) == Message("Request failed with status", status)

\* Whether render(profile) throws: clean calls replace on what is no string.
renderThrows(profile) ==
  (IF Truthy(profile.about) THEN profile.about ELSE profile.bio) = NotAString

Init ==
  /\ pc = "start"
  /\ env \in [hasFetch : BOOLEAN, columns : ColumnCounts]
  /\ input = NULL /\ output = NULL
  /\ response = [status |-> 0, payload |-> [kind |-> "none", profile |-> EmptyProfile], chunks |-> 0]
  /\ body = <<>>
  /\ data = [kind |-> "none", profile |-> EmptyProfile]
  /\ err = Message("", 0)
  /\ stdout = <<>> /\ stderr = <<>> /\ exitCode = 0 /\ trace = <<>>

\* fetchProfile with a global fetch: `await fetch(url)` issues the GET.
CallFetch ==
  /\ pc = "start" /\ env.hasFetch
  /\ trace' = Append(trace, "GET")
  /\ pc' = "awaitFetch"
  /\ UNCHANGED <<input, output, env, response, body, data, err, stdout, stderr, exitCode>>

\* fetch rejects: the transport failed before a response.
FetchRejects ==
  /\ pc = "awaitFetch"
  /\ err' = Message("fetch failed", 0)
  /\ trace' = Append(trace, "throw")
  /\ pc' = "catch"
  /\ UNCHANGED <<input, output, env, response, body, data, stdout, stderr, exitCode>>

\* fetch resolves with a response: a status that is not ok throws, else res.json().
FetchResolves ==
  /\ pc = "awaitFetch"
  /\ \E st \in Statuses, pl \in Payloads :
       /\ response' = [status |-> st, payload |-> pl, chunks |-> 0]
       /\ IF ~ok(st)
          THEN /\ err' = StatusError(st)
               /\ trace' = trace \o <<"response", "throw">>
               /\ pc' = "catch"
          ELSE /\ err' = err
               /\ trace' = Append(trace, "response")
               /\ pc' = "awaitJson"
  /\ UNCHANGED <<input, output, env, body, data, stdout, stderr, exitCode>>

\* res.json() rejects: the body stream failed, or the body is no JSON.
JsonRejects ==
  /\ pc = "awaitJson"
  /\ \/ err' = Message("terminated", 0)
     \/ response.payload.kind = "invalid" /\ err' = Message("Unexpected token", 0)
  /\ trace' = Append(trace, "throw")
  /\ pc' = "catch"
  /\ UNCHANGED <<input, output, env, response, body, data, stdout, stderr, exitCode>>

\* res.json() resolves with the parsed body.
JsonResolves ==
  /\ pc = "awaitJson" /\ response.payload.kind # "invalid"
  /\ data' = response.payload
  /\ trace' = Append(trace, "parsed")
  /\ pc' = "gotData"
  /\ UNCHANGED <<input, output, env, response, body, err, stdout, stderr, exitCode>>

\* fetchProfile without a global fetch: https.get issues the GET.
CallHttpsGet ==
  /\ pc = "start" /\ ~env.hasFetch
  /\ trace' = Append(trace, "GET")
  /\ pc' = "awaitResponse"
  /\ UNCHANGED <<input, output, env, response, body, data, err, stdout, stderr, exitCode>>

\* 'error' on the request: reject(err).
HttpsError ==
  /\ pc \in {"awaitResponse", "receiving"}
  /\ err' = Message("socket error", 0)
  /\ trace' = Append(trace, "throw")
  /\ pc' = "catch"
  /\ UNCHANGED <<input, output, env, response, body, data, stdout, stderr, exitCode>>

\* The response callback: data = "", and the 'data' and 'end' listeners are set.
\* An empty body (no chunk) is no JSON.
HttpsResponse ==
  /\ pc = "awaitResponse"
  /\ \E st \in Statuses, pl \in Payloads, n \in 0..MaxChunks :
       /\ n = 0 => pl.kind = "invalid"
       /\ response' = [status |-> st, payload |-> pl, chunks |-> n]
  /\ body' = <<>>
  /\ trace' = Append(trace, "response")
  /\ pc' = "receiving"
  /\ UNCHANGED <<input, output, env, data, err, stdout, stderr, exitCode>>

\* 'data' on the response: data += chunk.
HttpsData ==
  /\ pc = "receiving" /\ Len(body) < response.chunks
  /\ body' = Append(body, "chunk")
  /\ UNCHANGED <<pc, input, output, env, response, data, err, stdout, stderr, exitCode, trace>>

\* 'end' on the response: reject on a status outside 2xx, else JSON.parse(data).
HttpsEnd ==
  /\ pc = "receiving" /\ Len(body) = response.chunks
  /\ IF ~ok(response.status)
     THEN /\ err' = StatusError(response.status)
          /\ trace' = Append(trace, "throw")
          /\ pc' = "catch" /\ data' = data
     ELSE IF response.payload.kind = "invalid"
     THEN /\ err' = Message("Unexpected token", 0)
          /\ trace' = Append(trace, "throw")
          /\ pc' = "catch" /\ data' = data
     ELSE /\ data' = response.payload
          /\ trace' = Append(trace, "parsed")
          /\ pc' = "gotData" /\ err' = err
  /\ UNCHANGED <<input, output, env, response, body, stdout, stderr, exitCode>>

\* The connection closes before the body ended: the response is aborted, neither
\* 'end' on the response nor 'error' on the request is emitted, no listener is
\* left, the promise stays pending and the process exits with its exit code.
HttpsAborted ==
  /\ pc = "receiving"
  /\ trace' = Append(trace, "aborted")
  /\ pc' = "exit"
  /\ UNCHANGED <<input, output, env, response, body, data, err, stdout, stderr, exitCode>>

\* if (!data || !data.data) throw new Error("No profile data returned.")
CheckData ==
  /\ pc = "gotData"
  /\ IF data.kind \in {"null", "noData", "falsyData"}
     THEN /\ err' = Message("No profile data returned.", 0)
          /\ trace' = Append(trace, "throw")
          /\ pc' = "catch"
     ELSE /\ err' = err
          /\ trace' = trace
          /\ pc' = "print"
  /\ UNCHANGED <<input, output, env, response, body, data, stdout, stderr, exitCode>>

\* console.log(render(data.data)): render may throw, and then nothing is logged.
PrintProfile ==
  /\ pc = "print"
  /\ IF renderThrows(data.profile)
     THEN /\ err' = Message("text.replace is not a function", 0)
          /\ trace' = trace \o <<"render", "throw">>
          /\ pc' = "catch"
          /\ stdout' = stdout
     ELSE /\ stdout' = Append(stdout, render(data.profile, env.columns))
          /\ trace' = trace \o <<"render", "stdout">>
          /\ pc' = "exit"
          /\ err' = err
  /\ UNCHANGED <<input, output, env, response, body, data, stderr, exitCode>>

\* A catch block that logs the error and then starts the request again.
CatchErrorAndRetry ==
  /\ pc = "catch"
  /\ stderr' = Append(stderr, [tag |-> magenta(<<"E", "r", "r", "o", "r", ":">>), message |-> err])
  /\ trace' = Append(trace, "stderr")
  /\ pc' = "start"
  /\ UNCHANGED <<input, output, env, response, body, data, err, stdout, exitCode>>

\* catch (err): console.error(`${color.magenta("Error:")} ${err.message}`); process.exitCode = 1
CatchError ==
  /\ pc = "catch"
  /\ stderr' = Append(stderr, [tag |-> magenta(<<"E", "r", "r", "o", "r", ":">>), message |-> err])
  /\ exitCode' = 1
  /\ trace' = Append(trace, "stderr")
  /\ pc' = "exit"
  /\ UNCHANGED <<input, output, env, response, body, data, err, stdout>>

Next ==
  \/ CallFetch \/ FetchRejects \/ FetchResolves \/ JsonRejects \/ JsonResolves
  \/ CallHttpsGet \/ HttpsError \/ HttpsResponse \/ HttpsData \/ HttpsEnd \/ HttpsAborted
  \/ CheckData \/ PrintProfile \/ CatchError

Spec == Init /\ [][Next]_vars

\* The run succeeded: the full box on standard output, nothing on standard error,
\* exit code 0.
Succeeded ==
  /\ Len(stdout) = 1
  /\ Head(stdout) = render(data.profile, env.columns)
  /\ Head(Head(stdout)) = "TL" /\ Head(stdout)[Len(Head(stdout))] = "BR"
  /\ stderr = <<>>
  /\ exitCode = 0

\* The run failed: one Error: line on standard error, a non-zero exit code,
\* nothing on standard output.
Failed ==
  /\ Len(stderr) = 1
  /\ stripAnsi(Head(stderr).tag) = <<"E", "r", "r", "o", "r", ":">>
  /\ Head(stderr).message = err
  /\ exitCode # 0
  /\ stdout = <<>>

\* The events of the trace up to position i.
Before(i) == {trace[j] : j \in 1..(i - 1)}

\* C3: every run of main ends in one of two outcomes: success (the box on stdout,
\* nothing on stderr, exit code 0) or, on a transport error, a status outside 2xx,
\* a body that is no JSON or a body without data, failure (one Error: line on
\* stderr, a non-zero exit code, nothing on stdout).
C3_TwoOutcomes ==
  pc = "exit" =>
    /\ Succeeded \/ Failed
    /\ ~(Succeeded /\ Failed)
    /\ (\E i \in 1..Len(trace) : trace[i] \in {"throw", "aborted"}) => Failed
    /\ (response.status # 0 /\ ~ok(response.status)) => Failed

\* C9: on both paths at most one GET is issued, none after a failure, and the
\* render step and the write to standard output come only after the request
\* completed with a status in 2xx and a parsed body.
C9_OneRequest ==
  /\ Cardinality({i \in 1..Len(trace) : trace[i] = "GET"}) <= 1
  /\ \A i \in 1..Len(trace) :
       /\ trace[i] = "GET" => ~(\E e \in Before(i) : e \in {"throw", "aborted", "stderr"})
       /\ trace[i] \in {"render", "stdout"} =>
            /\ {"GET", "response", "parsed"} \subseteq Before(i)
            /\ "throw" \notin Before(i)
            /\ ok(response.status)
            /\ data = response.payload
  /\ stdout # <<>> => \E i \in 1..Len(trace) : trace[i] = "stdout"

\* C9's case: a run on the https fallback path printed the box, after a failure
\* was possible at every step.
C9_Witness ==
  /\ pc = "exit"
  /\ ~env.hasFetch
  /\ Len(stdout) = 1
  /\ Len(body) = MaxChunks
  /\ trace = <<"GET", "response", "parsed", "render", "stdout">>
====
